---- MODULE Spec2Model ----
(***************************************************************************)
(* Verification model of the ALX Polly polling application.                *)
(*                                                                         *)
(* Part I  : the Postgres schema of src/schema.sql: tables polls,          *)
(*           poll_options and votes, the function record_vote run as a     *)
(*           transaction at READ COMMITTED isolation, the row-level        *)
(*           security policy for vote inserts, and the tally function      *)
(*           get_poll_with_options.                                        *)
(* Part II : the server action submitVote of the Next.js application       *)
(*           (src/unnamed/part_002) over the README schema                 *)
(*           (src/unnamed/part_000).                                       *)
(***************************************************************************)
EXTENDS Integers, Sequences, FiniteSets, TLC

(***************************************************************************)
(* Bounds of the model.                                                    *)
(***************************************************************************)
\* number of record_vote calls accepted or in flight, of concurrent sessions
MaxCalls == 3
\* number of record_vote calls accepted or in flight, made one at a time
MaxSeqCalls == 3
\* number of vote rows ever inserted where inserts through the table API occur
MaxRows == 2
\* a server action that may insert a row starts only while at most this many
\* row ids have been generated, where polls are created and deleted
MaxAppIds == 1
\* a session starts a record_vote call only while at most this many vote ids
\* have been drawn, where transactions may be aborted
MaxTxRows == 2

(***************************************************************************)
(* Part I : src/schema.sql                                                 *)
(***************************************************************************)
\* database sessions that call record_vote or issue statements
Callers == {"c1", "c2"}
\* profiles.id values (auth.uid() of a session)
Voters == {"v1", "v2"}
\* rows of public.polls (by id); "p0" is a uuid with no polls row
Polls == {"p1", "p2"}
PollIds == Polls \cup {"p0"}
\* rows of public.poll_options: option id -> poll_id
OptionPoll == [o \in {"A1", "B1", "A2", "B2", "C2"} |->
                 IF o \in {"A1", "B1"} THEN "p1" ELSE "p2"]
Options == DOMAIN OptionPoll
\* "Zz" is a uuid with no poll_options row
OptionIds == Options \cup {"Zz"}
OptionsOf(p) == {o \in Options : OptionPoll[o] = p}

\* the enum poll_status
PollStatus == {"active", "closed", "draft"}
\* expires_at relative to the clock: NULL (no expiry) or a time in the past
ExpiresAt == {"null", "past"}

\* the columns of public.polls that the vote path reads
PollRows == [status : PollStatus, is_public : BOOLEAN,
             allow_multiple_votes : BOOLEAN, expires_at : ExpiresAt]

\* outcomes of a record_vote call: RETURN TRUE, or the exception raised
OK == "ok"
PollNotFound == "Poll not found"
PollNotActive == "Poll is not active"
InvalidOption == "Invalid option for this poll"
UniqueViolation == "duplicate key value violates unique constraint"

VARIABLES
  polls,      \* committed rows of public.polls
  votes,      \* committed rows of public.votes
  nextId,     \* source of fresh votes.id / created_at values
  tx,         \* per session: the record_vote call and its open transaction
  last,       \* the call that returned most recently, and what it returned
  accepted    \* the calls that returned TRUE, in commit order

sqlVars == <<polls, votes, nextId, tx, last, accepted>>

\* Part II (declared here so that every action can leave them unchanged)
VARIABLES
  appPolls,     \* README schema: rows of public.polls, by id
  appVotes,     \* README schema: rows of public.votes
  appNextId,    \* source of fresh votes.id values
  req,          \* per server request: the submitVote call in progress
  appLast,      \* the server action call that returned most recently
  revalidated   \* the paths passed to revalidatePath so far

appVars == <<appPolls, appVotes, appNextId, req, appLast, revalidated>>

\* Part III: the state of AuthProvider and of updateSession
VARIABLES
  authSession,      \* the session the browser auth client holds
  user,             \* React state of AuthProvider: user
  session,          \* React state of AuthProvider: session
  loading,          \* React state of AuthProvider: loading
  mounted,          \* the flag of the effect; the subscription lives as long
  getUser,          \* the initial fetch: where it is, and the user it fetched
  requestCookies,   \* updateSession: request.cookies, name -> value
  responseCookies,  \* updateSession: the cookies of the current response object
  written,          \* the cookies the auth client has set or removed: name -> value
  returned          \* updateSession has returned its response

clientVars == <<authSession, user, session, loading, mounted, getUser,
                requestCookies, responseCookies, written, returned>>

\* a row of public.votes; id stands for the generated uuid and for created_at
\* (DEFAULT NOW()): both are fresh for every inserted row
VoteRow(i, p, o, v) == [id |-> i, poll_id |-> p, option_id |-> o, voter_id |-> v]

SameKey(r, p, v, o) == r.poll_id = p /\ r.voter_id = v /\ r.option_id = o

IdleTx == [pc |-> "idle", poll |-> "none", option |-> "none", voter |-> "none",
           multi |-> FALSE, ins |-> {}, del |-> {}, targets |-> {},
           raced |-> FALSE]

NoCall == [poll |-> "none", option |-> "none", voter |-> "none",
           result |-> "none", raced |-> FALSE]

\* rows another open transaction has deleted but not committed (row locks)
LockedByOther(c) == UNION {tx[d].del : d \in Callers \ {c}}
\* rows another open transaction has inserted but not committed
PendingByOther(c) == UNION {tx[d].ins : d \in Callers \ {c}}

\* the option check placed before the status check
ValidateVote_OptionFirst(p, o) ==
  IF p \notin Polls THEN PollNotFound
  ELSE IF ~(o \in Options /\ OptionPoll[o] = p) THEN InvalidOption
  ELSE IF polls[p].status # "active" THEN PollNotActive
  ELSE OK

\* record_vote, lines 251-265: the checks before any write
ValidateVote(p, o) ==
  IF p \notin Polls THEN PollNotFound
  ELSE IF polls[p].status # "active" THEN PollNotActive
  ELSE IF ~(o \in Options /\ OptionPoll[o] = p) THEN InvalidOption
  ELSE OK

\* every poll treated as single-choice
MultiBranch_Never(rec) == FALSE

\* record_vote, line 268: which branch of the voting logic runs
MultiBranch(rec) == rec.allow_multiple_votes

\* the DELETE of the previous vote left out
DeleteTargets_None(p, v) == {}

\* the DELETE without its voter_id condition
DeleteTargets_AllVoters(p, v) == {r \in votes : r.poll_id = p}

\* record_vote, line 276: the rows the DELETE statement sees in its snapshot
DeleteTargets(p, v) == {r \in votes : r.poll_id = p /\ r.voter_id = v}

\* line 55, UNIQUE(poll_id, voter_id, option_id): a row of the key is among
\* the rows visible to the inserting transaction
KeyTaken(visible, p, v, o) == \E r \in visible : SameKey(r, p, v, o)


\* what the caller of session c gets back; raced tells that another call for
\* the same (poll, voter, option) was in flight at the same time
Returned(c, out) ==
  [poll |-> tx[c].poll, option |-> tx[c].option, voter |-> tx[c].voter,
   result |-> out, raced |-> tx[c].raced]

SqlInit ==
  /\ polls \in [Polls -> PollRows]
  /\ polls["p1"].is_public
  /\ polls["p2"] = [status |-> "active", is_public |-> TRUE,
                    allow_multiple_votes |-> TRUE, expires_at |-> "null"]
  /\ votes = {}
  /\ nextId = 1
  /\ tx = [c \in Callers |-> IdleTx]
  /\ last = NoCall
  /\ accepted = <<>>

InFlight == {c \in Callers : tx[c].pc # "idle"}

\* SELECT record_vote(p, o, v): lines 251-265.  polls and poll_options do not
\* change while votes are cast, so the three reads are one step.
Call(c, p, o, v) ==
  /\ tx[c].pc = "idle"
  /\ Len(accepted) + Cardinality(InFlight) < MaxCalls
  /\ LET out == ValidateVote(p, o)
         same == {d \in InFlight : tx[d].poll = p /\ tx[d].voter = v
                                                  /\ tx[d].option = o}
     IN IF out = OK
        THEN /\ tx' = [d \in Callers |->
                        IF d = c
                        THEN [IdleTx EXCEPT !.pc = "vote", !.poll = p, !.option = o,
                                            !.voter = v, !.raced = (same # {}),
                                            !.multi = MultiBranch(polls[p])]
                        ELSE IF d \in same THEN [tx[d] EXCEPT !.raced = TRUE]
                        ELSE tx[d]]
             /\ UNCHANGED last
        ELSE /\ last' = [poll |-> p, option |-> o, voter |-> v, result |-> out,
                         raced |-> FALSE]
             /\ UNCHANGED tx
  /\ UNCHANGED <<polls, votes, nextId, accepted, appVars, clientVars>>

\* lines 271-272: INSERT ... ON CONFLICT (poll_id, voter_id, option_id) DO NOTHING.
\* The statement waits for an open transaction that inserted the same key.
InsertOnConflict(c) ==
  /\ tx[c].pc = "vote" /\ tx[c].multi
  /\ ~\E r \in PendingByOther(c) : SameKey(r, tx[c].poll, tx[c].voter, tx[c].option)
  /\ IF KeyTaken(votes, tx[c].poll, tx[c].voter, tx[c].option)
     THEN /\ tx' = [tx EXCEPT ![c].pc = "commit"]
          /\ UNCHANGED nextId
     ELSE /\ tx' = [tx EXCEPT ![c].pc = "commit",
                              ![c].ins = {VoteRow(nextId, tx[c].poll, tx[c].option,
                                                  tx[c].voter)}]
          /\ nextId' = nextId + 1
  /\ UNCHANGED <<polls, votes, last, accepted, appVars, clientVars>>

\* the DELETE committed on its own, as a statement outside the transaction
Delete_Autocommit(c) ==
  /\ tx[c].pc = "vote" /\ ~tx[c].multi
  /\ votes' = votes \ DeleteTargets(tx[c].poll, tx[c].voter)
  /\ tx' = [tx EXCEPT ![c].pc = "insert"]
  /\ UNCHANGED <<polls, nextId, last, accepted, appVars, clientVars>>

\* line 276: DELETE FROM votes WHERE poll_id = .. AND voter_id = ..
\* The statement sees the rows committed when it starts; a row that an open
\* transaction has deleted makes it wait.
Delete(c) ==
  /\ tx[c].pc = "vote" /\ ~tx[c].multi
  /\ LET tg == DeleteTargets(tx[c].poll, tx[c].voter)
     IN IF tg \cap LockedByOther(c) = {}
        THEN tx' = [tx EXCEPT ![c].pc = "insert", ![c].del = tg]
        ELSE tx' = [tx EXCEPT ![c].pc = "delete_wait", ![c].targets = tg]
  /\ UNCHANGED <<polls, votes, nextId, last, accepted, appVars, clientVars>>

\* line 276, after the wait: only the rows of the statement's snapshot are
\* rechecked; rows committed since are not seen.
DeleteResume(c) ==
  /\ tx[c].pc = "delete_wait"
  /\ tx[c].targets \cap LockedByOther(c) = {}
  /\ tx' = [tx EXCEPT ![c].pc = "insert", ![c].del = tx[c].targets \cap votes,
                      ![c].targets = {}]
  /\ UNCHANGED <<polls, votes, nextId, last, accepted, appVars, clientVars>>

\* line 277: INSERT INTO votes, checked by UNIQUE(poll_id, voter_id, option_id)
\* (line 55).  A unique violation raises, and the transaction rolls back.
Insert(c) ==
  /\ tx[c].pc = "insert"
  /\ ~\E r \in PendingByOther(c) \cup (votes \cap LockedByOther(c)) :
        SameKey(r, tx[c].poll, tx[c].voter, tx[c].option)
  /\ IF KeyTaken(votes \ tx[c].del, tx[c].poll, tx[c].voter, tx[c].option)
     THEN /\ tx' = [tx EXCEPT ![c] = IdleTx]
          /\ last' = Returned(c, UniqueViolation)
          /\ UNCHANGED nextId
     ELSE /\ tx' = [tx EXCEPT ![c].pc = "commit",
                              ![c].ins = {VoteRow(nextId, tx[c].poll, tx[c].option,
                                                  tx[c].voter)}]
          /\ nextId' = nextId + 1
          /\ UNCHANGED last
  /\ UNCHANGED <<polls, votes, accepted, appVars, clientVars>>

\* line 280 and the end of the statement's transaction: RETURN TRUE, commit
Commit(c) ==
  /\ tx[c].pc = "commit"
  /\ votes' = (votes \ tx[c].del) \cup tx[c].ins
  /\ accepted' = Append(accepted, [poll |-> tx[c].poll, voter |-> tx[c].voter,
                                   option |-> tx[c].option])
  /\ tx' = [tx EXCEPT ![c] = IdleTx]
  /\ last' = Returned(c, OK)
  /\ UNCHANGED <<polls, nextId, appVars, clientVars>>

\* the outcome of a call whose transaction was aborted before its commit
\* (statement timeout, lost connection, server restart)
Aborted == "transaction aborted"

\* the DELETE of an aborted call kept
RolledBack_DeleteKept(c) == votes \ tx[c].del

\* lines 247-282: the function body is one statement of the caller, so it runs
\* in one transaction; the rows committed after that transaction is rolled back
RolledBack(c) == votes

\* the transaction of session c is aborted at any point before its commit:
\* its DELETE and INSERT are undone and its row locks released
Abort(c) ==
  /\ tx[c].pc # "idle"
  /\ votes' = RolledBack(c)
  /\ tx' = [tx EXCEPT ![c] = IdleTx]
  /\ last' = Returned(c, Aborted)
  /\ UNCHANGED <<polls, nextId, accepted, appVars, clientVars>>

\* record_vote, lines 242-282, run while no other transaction is open: the
\* statements of the function see and change the committed rows directly
RecordVote(p, o, v) ==
  /\ Len(accepted) < MaxSeqCalls
  /\ LET out == ValidateVote(p, o)
         call == [poll |-> p, option |-> o, voter |-> v, result |-> out,
                  raced |-> FALSE]
         del == DeleteTargets(p, v)
         row == VoteRow(nextId, p, o, v)
     IN IF out # OK
        THEN /\ last' = call
             /\ UNCHANGED <<votes, nextId, accepted>>
        ELSE IF MultiBranch(polls[p])
        THEN /\ IF KeyTaken(votes, p, v, o)
                THEN UNCHANGED <<votes, nextId>>
                ELSE votes' = votes \cup {row} /\ nextId' = nextId + 1
             /\ last' = call
             /\ accepted' = Append(accepted, [poll |-> p, voter |-> v, option |-> o])
        ELSE IF KeyTaken(votes \ del, p, v, o)
        THEN /\ last' = [call EXCEPT !.result = UniqueViolation]
             /\ UNCHANGED <<votes, nextId, accepted>>
        ELSE /\ votes' = (votes \ del) \cup {row}
             /\ nextId' = nextId + 1
             /\ last' = call
             /\ accepted' = Append(accepted, [poll |-> p, voter |-> v, option |-> o])
  /\ UNCHANGED <<polls, tx, appVars, clientVars>>

\* lines 142-151: WITH CHECK of "Authenticated users can vote on public active polls"
VoteInsertPolicy(uid, p, v) ==
  /\ uid = v
  /\ p \in Polls /\ polls[p].is_public /\ polls[p].status = "active"

\* lines 49-56: the constraints of public.votes on a new row
VoteConstraints(p, o, v) ==
  /\ p \in Polls                \* poll_id REFERENCES polls(id)
  /\ o \in Options              \* option_id REFERENCES poll_options(id)
  /\ v \in Voters               \* voter_id REFERENCES profiles(id)
  /\ ~\E r \in votes : SameKey(r, p, v, o)

\* INSERT INTO votes by the session of user uid through the table API
\* (GRANT ALL, lines 310-311), admitted by the policy and the constraints
DirectInsert(uid, p, o, v) ==
  /\ nextId <= MaxRows
  /\ VoteInsertPolicy(uid, p, v)
  /\ VoteConstraints(p, o, v)
  /\ ~\E c \in Callers : \E r \in tx[c].ins : SameKey(r, p, v, o)
  /\ votes' = votes \cup {VoteRow(nextId, p, o, v)}
  /\ nextId' = nextId + 1
  /\ UNCHANGED <<polls, tx, last, accepted, appVars, clientVars>>

\* get_poll_with_options, lines 195-200: vote_count of an option of poll p
VoteCount(p, o) ==
  Cardinality({r \in votes : r.poll_id = p /\ r.option_id = o})

\* get_poll_with_options, line 204: total_votes
TotalVotes(p) == Cardinality({r \in votes : r.poll_id = p})

RECURSIVE SumOver(_, _)
SumOver(p, S) ==
  IF S = {} THEN 0
  ELSE LET o == CHOOSE x \in S : TRUE IN VoteCount(p, o) + SumOver(p, S \ {o})

\* get_poll_with_options, lines 186-203: the sum of the vote_count values of
\* the options json (one entry per poll_options row of the poll)
SumOfOptionCounts(p) == SumOver(p, OptionsOf(p))


(***************************************************************************)
(* Part II : the server action submitVote (src/unnamed/part_002) over the  *)
(* README schema (src/unnamed/part_000).  The README gives polls no SELECT *)
(* policy; the model takes poll rows to be readable by the server client,  *)
(* as the action itself does.                                              *)
(***************************************************************************)
\* server requests running submitVote concurrently
Requests == {"r1", "r2"}
\* auth.users ids
Users == {"u1", "u2"}
NULL == "null"

\* what supabase.auth.getUser() resolves to: a user, no user, or an error
AuthErrorMsg == "Auth session missing!"
AuthResults ==
  {[user |-> u, error |-> NULL] : u \in Users \cup {NULL}}
    \cup {[user |-> NULL, error |-> AuthErrorMsg]}

\* rawOptionIndex: number | string.  A number is v, or v + 1/2 when frac; a
\* string is the numeral of v followed by ".5" when frac, or, when ~digits, a
\* string that does not start with a numeral
RawInputs ==
  {[t |-> "number", v |-> n, frac |-> FALSE, digits |-> TRUE] : n \in -1..2}
    \cup {[t |-> "number", v |-> 0, frac |-> TRUE, digits |-> TRUE],
          [t |-> "string", v |-> 1, frac |-> FALSE, digits |-> TRUE],
          [t |-> "string", v |-> 1, frac |-> TRUE, digits |-> TRUE],
          [t |-> "string", v |-> 0, frac |-> FALSE, digits |-> FALSE]}

\* line 110: parseInt(raw, 10) for a string (the leading numeral, or NaN),
\* the number itself otherwise
CoerceOption(raw) ==
  IF raw.t = "string"
  THEN [v |-> raw.v, frac |-> FALSE, nan |-> ~raw.digits]
  ELSE [v |-> raw.v, frac |-> raw.frac, nan |-> FALSE]

\* line 111: Number.isInteger
IsInteger(x) == ~x.nan /\ ~x.frac

\* messages of the storage layer
UniqueMsg == "duplicate key value violates unique constraint votes_unique_user_per_poll"
RlsMsg == "new row violates row-level security policy for table votes"
NoRowsMsg == "JSON object requested, multiple (or no) rows returned"
StorageMsgs == {"", "fetch failed"}

\* replies of submitVote
MustLogIn == "You must be logged in to vote."
InvalidOptionMsg == "Invalid option."
AlreadyVoted == "You have already voted in this poll."
FailedMsg == "Failed to submit vote"

\* no message taken for a duplicate
MatchesDuplicate_Never(msg) == FALSE

\* line 142: /duplicate key|unique/i.test(msg)
MatchesDuplicate(msg) == msg \in {UniqueMsg}

\* the storage error passed on as it is
VoteErrorReply_Raw(msg) == IF msg = "" THEN FailedMsg ELSE msg

\* lines 140-144: the error returned for a failed insert
VoteErrorReply(msg) ==
  LET m == IF msg = "" THEN FailedMsg ELSE msg
  IN IF MatchesDuplicate(m) THEN AlreadyVoted ELSE m

AppPollIds == {"q1", "q0"}

IdleReq == [pc |-> "idle", user |-> NULL, pollId |-> NULL, optionIndex |-> 0,
            dbError |-> NULL]

NoAppCall == [action |-> "none", user |-> NULL, pollId |-> NULL,
              dbError |-> NULL, error |-> "none"]

AppInit ==
  /\ appPolls = [q \in {"q1"} |->
                   [user_id |-> "u1", question |-> "Q1", options |-> <<"a", "b">>]]
  /\ appVotes = {}
  /\ appNextId = 1
  /\ req = [r \in Requests |-> IdleReq]
  /\ appLast = NoAppCall
  /\ revalidated = {}

SubmitReply(r, err) ==
  [action |-> "submitVote", user |-> req[r].user, pollId |-> req[r].pollId,
   dbError |-> req[r].dbError, error |-> err]

\* submitVote, lines 98-111: the caller's identity and the option index
SubmitVote(r, auth, pollId, raw) ==
  /\ req[r].pc = "idle"
  /\ LET idx == CoerceOption(raw)
         err == IF auth.error # NULL THEN auth.error
                ELSE IF auth.user = NULL THEN MustLogIn
                ELSE IF ~IsInteger(idx) THEN InvalidOptionMsg
                ELSE NULL
     IN IF err # NULL
        THEN /\ appLast' = [NoAppCall EXCEPT !.action = "submitVote",
                                             !.user = auth.user,
                                             !.pollId = pollId, !.error = err]
             /\ UNCHANGED req
        ELSE /\ req' = [req EXCEPT ![r] = [IdleReq EXCEPT !.pc = "selectPoll",
                                             !.user = auth.user, !.pollId = pollId,
                                             !.optionIndex = idx.v]]
             /\ UNCHANGED appLast
  /\ UNCHANGED <<appPolls, appVotes, appNextId, revalidated, sqlVars, clientVars>>

\* the poll's path invalidated as soon as the poll is looked up
SelectPoll_Revalidating(r) ==
  /\ req[r].pc = "selectPoll"
  /\ revalidated' = revalidated \cup {<<"/polls", req[r].pollId>>}
  /\ IF req[r].pollId \notin DOMAIN appPolls
     THEN /\ appLast' = SubmitReply(r, NoRowsMsg)
          /\ req' = [req EXCEPT ![r] = IdleReq]
     ELSE /\ req' = [req EXCEPT ![r].pc = "checkExisting"]
          /\ UNCHANGED appLast
  /\ UNCHANGED <<appPolls, appVotes, appNextId, sqlVars, clientVars>>

\* lines 114-122: the poll is read and the index checked against its options
SelectPoll(r) ==
  /\ req[r].pc = "selectPoll"
  /\ LET err == IF req[r].pollId \notin DOMAIN appPolls THEN NoRowsMsg
                ELSE IF req[r].optionIndex < 0
                        \/ req[r].optionIndex >= Len(appPolls[req[r].pollId].options)
                     THEN InvalidOptionMsg
                ELSE NULL
     IN IF err # NULL
        THEN /\ appLast' = SubmitReply(r, err)
             /\ req' = [req EXCEPT ![r] = IdleReq]
        ELSE /\ req' = [req EXCEPT ![r].pc = "checkExisting"]
             /\ UNCHANGED appLast
  /\ UNCHANGED <<appPolls, appVotes, appNextId, revalidated, sqlVars, clientVars>>

\* lines 125-132: a vote of this user on this poll ends the call
CheckExisting(r) ==
  /\ req[r].pc = "checkExisting"
  /\ LET existing == {w \in appVotes : w.poll_id = req[r].pollId
                                        /\ w.user_id = req[r].user}
     IN IF Cardinality(existing) > 1
        THEN /\ appLast' = SubmitReply(r, NoRowsMsg)
             /\ req' = [req EXCEPT ![r] = IdleReq]
        ELSE IF existing # {}
        THEN /\ appLast' = SubmitReply(r, AlreadyVoted)
             /\ req' = [req EXCEPT ![r] = IdleReq]
        ELSE /\ req' = [req EXCEPT ![r].pc = "insert"]
             /\ UNCHANGED appLast
  /\ UNCHANGED <<appPolls, appVotes, appNextId, revalidated, sqlVars, clientVars>>

\* the table without the unique index on (poll_id, user_id)
InsertError_NoIndex(uid, row) ==
  IF ~(uid = row.user_id /\ row.poll_id \in DOMAIN appPolls) THEN RlsMsg
  ELSE IF row.option_index < 0 THEN "new row violates check constraint"
  ELSE NULL

\* README lines 49-60 and 80-84: what the store answers to the insert of a
\* vote row: the policy insert_own_vote, the unique index on
\* (poll_id, user_id), the check option_index >= 0
InsertError(uid, row) ==
  IF ~(uid = row.user_id /\ row.poll_id \in DOMAIN appPolls) THEN RlsMsg
  ELSE IF row.option_index < 0 THEN "new row violates check constraint"
  ELSE IF \E w \in appVotes : w.poll_id = row.poll_id /\ w.user_id = row.user_id
       THEN UniqueMsg
  ELSE NULL

\* lines 135-137: the insert reaches the store; it may also fail on its way
InsertVote(r) ==
  /\ req[r].pc = "insert"
  /\ LET row == [id |-> appNextId, poll_id |-> req[r].pollId,
                 user_id |-> req[r].user, option_index |-> req[r].optionIndex]
         err == InsertError(req[r].user, row)
     IN \/ /\ err = NULL
           /\ appVotes' = appVotes \cup {row}
           /\ appNextId' = appNextId + 1
           /\ req' = [req EXCEPT ![r].pc = "respond"]
        \/ /\ err # NULL
           /\ req' = [req EXCEPT ![r].pc = "respond", ![r].dbError = err]
           /\ UNCHANGED <<appVotes, appNextId>>
        \/ /\ \E m \in StorageMsgs :
                req' = [req EXCEPT ![r].pc = "respond", ![r].dbError = m]
           /\ UNCHANGED <<appVotes, appNextId>>
  /\ UNCHANGED <<appPolls, appLast, revalidated, sqlVars, clientVars>>

\* the reply without the call of revalidatePath
Respond_NoRevalidate(r) ==
  /\ req[r].pc = "respond"
  /\ appLast' = SubmitReply(r, IF req[r].dbError = NULL THEN NULL
                                ELSE VoteErrorReply(req[r].dbError))
  /\ req' = [req EXCEPT ![r] = IdleReq]
  /\ UNCHANGED <<appPolls, appVotes, appNextId, revalidated, sqlVars, clientVars>>

\* lines 139-147: the answer of the insert is turned into the reply
Respond(r) ==
  /\ req[r].pc = "respond"
  /\ IF req[r].dbError # NULL
     THEN /\ appLast' = SubmitReply(r, VoteErrorReply(req[r].dbError))
          /\ UNCHANGED revalidated
     ELSE /\ appLast' = SubmitReply(r, NULL)
          /\ revalidated' = revalidated \cup {<<"/polls", req[r].pollId>>}
  /\ req' = [req EXCEPT ![r] = IdleReq]
  /\ UNCHANGED <<appPolls, appVotes, appNextId, sqlVars, clientVars>>

(***************************************************************************)
(* The server actions createPoll, updatePoll and deletePoll.  Each reads   *)
(* its input, resolves the user and issues one statement to the store.     *)
(***************************************************************************)
\* formData.get("question"): the field is empty (or missing), or a text
QuestionInputs == {"", "Q1", "Q2"}
\* formData.getAll("options"): the values of the repeated field, in order
OptionInputs == {<<"a", "">>, <<"a", "b">>, <<"b", "", "a", "a">>}

\* the filter left out
FilterBoolean_Keep(s) == s

\* lines 20 and 187: .filter(Boolean) drops the empty strings
FilterBoolean(s) == SelectSeq(s, LAMBDA x : x # "")

PleaseProvide == "Please provide a question and at least two options."
MustLogInCreate == "You must be logged in to create a poll."
MustLogInUpdate == "You must be logged in to update a poll."
MustLogInDelete == "You must be logged in to delete a poll."

\* lines 22-24 and 189-191: !question || options.length < 2
PollInputError(question, options) ==
  IF question \in {NULL, ""} \/ Len(options) < 2 THEN PleaseProvide ELSE NULL

\* the user not looked at
AuthError_Skipped(auth, msg) == NULL

\* lines 27-36, 157-166, 194-203: the result of supabase.auth.getUser()
AuthError(auth, msg) ==
  IF auth.error # NULL THEN auth.error
  ELSE IF auth.user = NULL THEN msg
  ELSE NULL

\* every row of the id matched, whoever owns it
OwnedBy_Any(q, uid) == q \in DOMAIN appPolls

\* lines 171-172 and 209-210, README lines 71-77: the rows an update or a
\* delete of user uid reaches: .eq("id", q).eq("user_id", uid), and the
\* policies update_own_poll and delete_own_poll (auth.uid() = user_id)
OwnedBy(q, uid) == q \in DOMAIN appPolls /\ appPolls[q].user_id = uid

\* README lines 40-46 and 67-69: what the store answers to the insert of a
\* polls row: the policy insert_own_poll and the NOT NULL columns
PollInsertError(uid, row) ==
  IF uid = NULL \/ uid # row.user_id THEN RlsMsg
  ELSE IF row.question = NULL THEN "null value in column violates not-null constraint"
  ELSE NULL

\* README line 41: id uuid default gen_random_uuid(), a value not used before
PollUuids == <<"q2", "q3", "q4", "q5", "q6", "q7">>
NewPollId == PollUuids[appNextId]

PollReply(action, auth, pollId, err) ==
  [action |-> action, user |-> auth.user, pollId |-> pollId, dbError |-> NULL,
   error |-> err]

\* createPoll, lines 16-52
CreatePoll(auth, question, rawOptions) ==
  LET options == FilterBoolean(rawOptions)
      inputErr == PollInputError(question, options)
      err == IF inputErr # NULL THEN inputErr ELSE AuthError(auth, MustLogInCreate)
      row == [user_id |-> auth.user, question |-> question, options |-> options]
      dbErr == PollInsertError(auth.user, row)
  IN /\ appNextId <= MaxAppIds
     /\ \/ /\ err # NULL
           /\ appLast' = PollReply("createPoll", auth, NULL, err)
           /\ UNCHANGED <<appPolls, appNextId, revalidated>>
        \/ /\ err = NULL /\ dbErr = NULL
           /\ appPolls' = [q \in DOMAIN appPolls \cup {NewPollId} |->
                             IF q = NewPollId THEN row ELSE appPolls[q]]
           /\ appNextId' = appNextId + 1
           /\ revalidated' = revalidated \cup {<<"/polls">>}
           /\ appLast' = PollReply("createPoll", auth, NULL, NULL)
        \/ /\ err = NULL
           /\ \E m \in (IF dbErr = NULL THEN {} ELSE {dbErr}) \cup StorageMsgs :
                appLast' = PollReply("createPoll", auth, NULL, m)
           /\ UNCHANGED <<appPolls, appNextId, revalidated>>
     /\ UNCHANGED <<appVotes, req, sqlVars, clientVars>>

\* updatePoll, lines 183-217
UpdatePoll(auth, pollId, question, rawOptions) ==
  LET options == FilterBoolean(rawOptions)
      inputErr == PollInputError(question, options)
      err == IF inputErr # NULL THEN inputErr ELSE AuthError(auth, MustLogInUpdate)
  IN /\ \/ /\ err # NULL
           /\ appLast' = PollReply("updatePoll", auth, pollId, err)
           /\ UNCHANGED appPolls
        \/ /\ err = NULL
           /\ appPolls' = [q \in DOMAIN appPolls |->
                             IF q = pollId /\ OwnedBy(q, auth.user)
                             THEN [appPolls[q] EXCEPT !.question = question,
                                                      !.options = options]
                             ELSE appPolls[q]]
           /\ appLast' = PollReply("updatePoll", auth, pollId, NULL)
        \/ /\ err = NULL
           /\ \E m \in StorageMsgs :
                appLast' = PollReply("updatePoll", auth, pollId, m)
           /\ UNCHANGED appPolls
     /\ UNCHANGED <<appVotes, appNextId, req, revalidated, sqlVars, clientVars>>

\* deletePoll, lines 154-177; the votes of a deleted poll go with it
\* (README line 51, on delete cascade)
DeletePoll(auth, id) ==
  LET err == AuthError(auth, MustLogInDelete)
      gone == {q \in DOMAIN appPolls : q = id /\ OwnedBy(q, auth.user)}
  IN /\ \/ /\ err # NULL
           /\ appLast' = PollReply("deletePoll", auth, id, err)
           /\ UNCHANGED <<appPolls, appVotes, revalidated>>
        \/ /\ err = NULL
           /\ appPolls' = [q \in DOMAIN appPolls \ gone |-> appPolls[q]]
           /\ appVotes' = {w \in appVotes : w.poll_id \notin gone}
           /\ revalidated' = revalidated \cup {<<"/polls">>}
           /\ appLast' = PollReply("deletePoll", auth, id, NULL)
        \/ /\ err = NULL
           /\ \E m \in StorageMsgs :
                appLast' = PollReply("deletePoll", auth, id, m)
           /\ UNCHANGED <<appPolls, appVotes, revalidated>>
     /\ UNCHANGED <<appNextId, req, sqlVars, clientVars>>

(***************************************************************************)
(* Part III : AuthProvider (src/app/lib/context/auth-context.tsx, lines    *)
(* 29-82) and updateSession (lines 130-172 of the same file), which the    *)
(* middleware calls for every request.                                     *)
(***************************************************************************)
\* the sessions the auth client can hold, and session.user of each: s2 is s1
\* after a token refresh, s3 is the session of another user
Sessions == {"s1", "s2", "s3"}
SessionUser == [s1 |-> "u1", s2 |-> "u1", s3 |-> "u2"]

\* session?.user ?? null
UserOf(s) == IF s = NULL THEN NULL ELSE SessionUser[s]

\* the names and values of auth cookies; a token too long for one cookie is
\* written in chunks (.0, .1)
CookieNames == {"sb-auth-token.0", "sb-auth-token.1", "sb-code-verifier"}
CookieValues == {"v1", "v2"}

\* cookies.set({ name, value }) on a cookie store
WithCookie(jar, name, value) ==
  [n \in DOMAIN jar \cup {name} |-> IF n = name THEN value ELSE jar[n]]

\* NextResponse.next({ request: { headers } }): a response without cookies
NoCookies == [n \in {} |-> ""]

ClientInit ==
  /\ authSession = NULL
  /\ user = NULL /\ session = NULL /\ loading = TRUE     \* lines 31-33
  /\ mounted = TRUE                                       \* line 36
  /\ getUser = [pc |-> "pending", user |-> NULL]           \* line 53
  /\ requestCookies = [n \in {"sb-auth-token.0"} |-> "v1"]
  /\ responseCookies = NoCookies                          \* lines 131-135
  /\ written = NoCookies
  /\ returned = FALSE

authVars == <<authSession, user, session, loading, mounted, getUser>>
cookieVars == <<requestCookies, responseCookies, written, returned>>

\* the auth client takes up a session (the stored one at start, a sign-in, a
\* token refresh) or drops it (sign-out) and tells its subscribers:
\* lines 56-61, the callback of onAuthStateChange
AuthStateChange(s) ==
  /\ authSession' = s
  /\ IF mounted                      \* subscribed until the cleanup, line 65
     THEN session' = s /\ user' = UserOf(s)
     ELSE UNCHANGED <<session, user>>
  /\ UNCHANGED <<loading, mounted, getUser, cookieVars, sqlVars, appVars>>

\* line 40: the auth server answers the getUser request with the user of the
\* session held at that moment
GetUserAnswer ==
  /\ getUser.pc = "pending"
  /\ getUser' = [pc |-> "answered", user |-> UserOf(authSession)]
  /\ UNCHANGED <<authSession, user, session, loading, mounted, cookieVars,
                 sqlVars, appVars>>

\* lines 40-50: the await resumes with the answer
GetUserResume ==
  /\ getUser.pc = "answered"
  /\ getUser' = [getUser EXCEPT !.pc = "done"]
  /\ IF mounted
     THEN user' = getUser.user /\ session' = NULL /\ loading' = FALSE
     ELSE UNCHANGED <<user, session, loading>>
  /\ UNCHANGED <<authSession, mounted, cookieVars, sqlVars, appVars>>

\* lines 63-66: the cleanup of the effect
Unmount ==
  /\ mounted
  /\ mounted' = FALSE
  /\ UNCHANGED <<authSession, user, session, loading, getUser, cookieVars,
                 sqlVars, appVars>>

\* lines 145-154: the auth client sets a cookie while the session is refreshed
CookiesSet(name, value) ==
  /\ ~returned
  /\ requestCookies' = WithCookie(requestCookies, name, value)
  /\ responseCookies' = WithCookie(NoCookies, name, value)
  /\ written' = WithCookie(written, name, value)
  /\ UNCHANGED <<returned, authVars, sqlVars, appVars>>

\* lines 155-163: the auth client removes a cookie
CookiesRemove(name) ==
  /\ ~returned
  /\ requestCookies' = WithCookie(requestCookies, name, "")
  /\ responseCookies' = WithCookie(NoCookies, name, "")
  /\ written' = WithCookie(written, name, "")
  /\ UNCHANGED <<returned, authVars, sqlVars, appVars>>

\* lines 169-171: getUser is done and updateSession returns the response
ReturnResponse ==
  /\ ~returned
  /\ returned' = TRUE
  /\ UNCHANGED <<requestCookies, responseCookies, written, authVars, sqlVars,
                 appVars>>

(***************************************************************************)
(* Specifications                                                          *)
(***************************************************************************)
vars == <<sqlVars, appVars, clientVars>>

Init == SqlInit /\ AppInit /\ ClientInit

\* record_vote calls of concurrent sessions, interleaved statement by statement.
\* The checks of lines 251-265 read tables that no call writes, so calls with
\* an unknown poll or a foreign option are left to the one-at-a-time runs.
Next ==
  \E c \in Callers :
    \/ \E p \in Polls, v \in Voters : \E o \in OptionsOf(p) : Call(c, p, o, v)
    \/ InsertOnConflict(c)
    \/ Delete(c)
    \/ DeleteResume(c)
    \/ Insert(c)
    \/ Commit(c)

Spec == Init /\ [][Next]_vars

\* record_vote calls one at a time
NextSeq == \E p \in PollIds, o \in OptionIds, v \in Voters : RecordVote(p, o, v)

SpecSeq == Init /\ [][NextSeq]_vars

\* record_vote calls and policy-checked inserts through the table API, one
\* statement at a time
NextRLS ==
  \/ \E p \in PollIds, o \in OptionIds, v \in Voters :
       nextId <= MaxRows /\ RecordVote(p, o, v)
  \/ \E uid \in Voters, p \in Polls, o \in Options, v \in Voters :
       DirectInsert(uid, p, o, v)

SpecRLS == Init /\ [][NextRLS]_vars

\* each session is the connection of one signed-in voter
SessionVoter == [c \in Callers |-> IF c = "c1" THEN "v1" ELSE "v2"]

\* record_vote calls of sessions of different voters, each call one transaction
\* that commits or is aborted; the calls of one voter follow one another.  No
\* two sessions touch the same row, so no DELETE waits for a row lock.
NextTx ==
  \E c \in Callers :
    \/ \E p \in Polls : \E o \in OptionsOf(p) :
         nextId <= MaxTxRows /\ Call(c, p, o, SessionVoter[c])
    \/ InsertOnConflict(c)
    \/ Delete(c)
    \/ Insert(c)
    \/ Commit(c)
    \/ Abort(c)

\* p1 is an active single-choice poll, p2 an active multiple-choice poll
InitTx ==
  /\ Init
  /\ polls["p1"] = [status |-> "active", is_public |-> TRUE,
                    allow_multiple_votes |-> FALSE, expires_at |-> "null"]

SpecTx == InitTx /\ [][NextTx]_vars

\* submitVote server actions of concurrent requests, interleaved at every await
NextApp ==
  \E r \in Requests :
    \/ \E auth \in AuthResults, q \in AppPollIds, raw \in RawInputs :
         SubmitVote(r, auth, q, raw)
    \/ SelectPoll(r)
    \/ CheckExisting(r)
    \/ InsertVote(r)
    \/ Respond(r)

\* the tables of Part I play no part in the server actions
InitApp ==
  /\ Init
  /\ polls = [p \in Polls |-> [status |-> "active", is_public |-> TRUE,
                               allow_multiple_votes |-> TRUE, expires_at |-> "null"]]

SpecApp == InitApp /\ [][NextApp]_vars

\* the poll ids a caller passes: the first poll, the poll created next, and
\* an id with no row
CalledPollIds == {"q1", "q2", "q0"}

\* one input of each kind the server actions tell apart: an empty and a
\* non-empty question, two and three non-empty options, and
\* an option index that is a numeral, a fraction, not a number, or the number 2
SomeQuestions == {"", "Q2"}
SomeOptions == {<<"a", "b">>, <<"b", "", "a", "a">>}
SomeRawInputs == {raw \in RawInputs : raw.t = "string" \/ raw.v = 2}

\* the four server actions, called for the first poll or for an id with no
\* row; submitVote runs in one request at a time, the other actions issue a
\* single statement and run between its steps.  The polls created here are
\* not called for again, so createPoll gets one list of options.
NextActions ==
  \/ \E auth \in AuthResults, q \in AppPollIds, raw \in SomeRawInputs :
       appNextId <= MaxAppIds /\ SubmitVote("r1", auth, q, raw)
  \/ SelectPoll("r1")
  \/ CheckExisting("r1")
  \/ InsertVote("r1")
  \/ Respond("r1")
  \/ \E auth \in AuthResults, qn \in SomeQuestions :
       CreatePoll(auth, qn, <<"a", "b">>)
  \/ \E auth \in AuthResults, q \in AppPollIds, qn \in SomeQuestions,
        os \in SomeOptions : UpdatePoll(auth, q, qn, os)
  \/ \E auth \in AuthResults, q \in AppPollIds : DeletePoll(auth, q)

SpecActions == InitApp /\ [][NextActions]_vars

\* createPoll, updatePoll and deletePoll calls of any users, in any order
NextPolls ==
  \/ \E auth \in AuthResults, qn \in QuestionInputs, os \in OptionInputs :
       CreatePoll(auth, qn, os)
  \/ \E auth \in AuthResults, q \in CalledPollIds, qn \in QuestionInputs,
        os \in OptionInputs : UpdatePoll(auth, q, qn, os)
  \/ \E auth \in AuthResults, q \in CalledPollIds : DeletePoll(auth, q)

SpecPolls == InitApp /\ [][NextPolls]_vars

\* AuthProvider from its mount on: the initial fetch, the auth events and the
\* unmount in any order
NextAuth ==
  \/ \E s \in Sessions \cup {NULL} : AuthStateChange(s)
  \/ GetUserAnswer
  \/ GetUserResume
  \/ Unmount

SpecAuth == InitApp /\ [][NextAuth]_vars

\* one run of updateSession: the cookie callbacks of the session refresh in
\* any number and order, then the return
NextSession ==
  \/ \E n \in CookieNames, v \in CookieValues : CookiesSet(n, v)
  \/ \E n \in CookieNames : CookiesRemove(n)
  \/ ReturnResponse

SpecSession == InitApp /\ [][NextSession]_vars


(***************************************************************************)
(* Properties of Part I                                                    *)
(***************************************************************************)
\* the vote rows of voter v on poll p
RowsOf(p, v) == {r \in votes : r.poll_id = p /\ r.voter_id = v}

\* the options voter v requested on poll p in accepted calls, oldest first
RECURSIVE RequestsOf(_, _, _)
RequestsOf(p, v, n) ==
  IF n = 0 THEN <<>>
  ELSE IF accepted[n].poll = p /\ accepted[n].voter = v
       THEN Append(RequestsOf(p, v, n - 1), accepted[n].option)
       ELSE RequestsOf(p, v, n - 1)

Requested(p, v) == RequestsOf(p, v, Len(accepted))

SeqRange(q) == {q[i] : i \in 1..Len(q)}

Inactive(p) == polls[p].status = "closed" \/ polls[p].expires_at = "past"

\* C1: on a single-choice poll, after a non-empty sequence of accepted calls
\* of one voter, made one at a time, the voter has exactly one vote row and it
\* is for the option requested last; a call with valid arguments succeeds; and
\* after A, B, A on the poll with options [A, B] the tally is A=1, B=0.
C1_SingleChoiceLatest ==
  /\ \A p \in Polls, v \in Voters :
       (~polls[p].allow_multiple_votes /\ Requested(p, v) # <<>>) =>
         \E r \in votes :
           /\ RowsOf(p, v) = {r}
           /\ r.option_id = Requested(p, v)[Len(Requested(p, v))]
  /\ (last.result # "none" /\ ValidateVote(last.poll, last.option) = OK
        /\ ~polls[last.poll].allow_multiple_votes) => last.result = OK
  /\ \A v \in Voters :
       (~polls["p1"].allow_multiple_votes
          /\ accepted = [i \in 1..3 |-> [poll |-> "p1", voter |-> v,
                                         option |-> <<"A1", "B1", "A1">>[i]]]) =>
         VoteCount("p1", "A1") = 1 /\ VoteCount("p1", "B1") = 0

C1_Witness ==
  /\ ~polls["p1"].allow_multiple_votes
  /\ Requested("p1", "v1") = <<"A1", "B1", "A1">>
  /\ VoteCount("p1", "A1") = 1 /\ VoteCount("p1", "B1") = 0

\* C2: on a single-choice poll a voter never has more than one committed vote
\* row, also when calls of the same voter run concurrently.
C2_AtMostOneLive ==
  \A p \in Polls, v \in Voters :
    ~polls[p].allow_multiple_votes => Cardinality(RowsOf(p, v)) <= 1

\* C3: a call that ran concurrently with another call for the same
\* (poll, voter, option) returns success, and exactly one row has that key.
C3_ParallelSameTriple ==
  last.raced =>
    /\ last.result = OK
    /\ Cardinality({r \in votes : SameKey(r, last.poll, last.voter, last.option)}) = 1

\* C4: on a multiple-choice poll the options of a voter's vote rows are the
\* options the voter requested in accepted calls, one row per option; after
\* A, B, A on the poll with options [A, B, C] the tally is A=1, B=1, C=0,
\* total 2.
C4_MultiChoiceSet ==
  /\ \A p \in Polls, v \in Voters :
       polls[p].allow_multiple_votes =>
         /\ {r.option_id : r \in RowsOf(p, v)} = SeqRange(Requested(p, v))
         /\ Cardinality(RowsOf(p, v)) = Cardinality(SeqRange(Requested(p, v)))
  /\ \A v \in Voters :
       accepted = [i \in 1..3 |-> [poll |-> "p2", voter |-> v,
                                   option |-> <<"A2", "B2", "A2">>[i]]] =>
         /\ VoteCount("p2", "A2") = 1 /\ VoteCount("p2", "B2") = 1
         /\ VoteCount("p2", "C2") = 0 /\ TotalVotes("p2") = 2

C4_Witness ==
  /\ polls["p2"].allow_multiple_votes
  /\ Requested("p2", "v1") = <<"A2", "B2", "A2">>
  /\ {r.option_id : r \in RowsOf("p2", "v1")} = {"A2", "B2"}
  /\ TotalVotes("p2") = 2

\* C6: on a single-choice poll, an accepted call for the option the voter
\* already holds leaves the vote rows as they were.
C6_RevoteNoOp ==
  [][(/\ last'.result = OK
      /\ last'.poll \in Polls
      /\ ~polls[last'.poll].allow_multiple_votes
      /\ KeyTaken(votes, last'.poll, last'.voter, last'.option))
       => votes' = votes]_vars

\* C7: a call on a poll that is closed, or whose expires_at is in the past,
\* returns "Poll is not active", and such a poll gets no vote row.
C7_ClosedOrExpiredRejected ==
  /\ (last.poll \in Polls /\ Inactive(last.poll)) => last.result = PollNotActive
  /\ \A r \in votes : ~Inactive(r.poll_id)

\* C8 as stated: a call for an option that is not an option of the poll
\* returns "Invalid option for this poll", whatever the mode and the status,
\* and no vote row is for an option outside its poll.
C8_InvalidOptionAlways ==
  /\ (last.poll \in Polls /\ last.option \notin OptionsOf(last.poll)) =>
       last.result = InvalidOption
  /\ \A r \in votes : r.option_id \in OptionsOf(r.poll_id)

\* C8 as amended: such a call always fails and adds no row; it returns
\* "Invalid option for this poll" on an active, unexpired poll and
\* "Poll is not active" on a draft or closed poll (the status is checked first).
C8_InvalidOptionByStatus ==
  /\ (last.poll \in Polls /\ last.option \notin OptionsOf(last.poll)) =>
       /\ last.result \notin {OK, "none"}
       /\ (polls[last.poll].status = "active" /\ ~Inactive(last.poll)) =>
            last.result = InvalidOption
       /\ polls[last.poll].status # "active" => last.result = PollNotActive
  /\ \A r \in votes : r.option_id \in OptionsOf(r.poll_id)

C8_Witness ==
  /\ last.poll \in Polls /\ last.option \notin OptionsOf(last.poll)
  /\ polls[last.poll].status = "closed"
  /\ last.result = PollNotActive

\* C9: the tally of every poll has total_votes equal to the number of the
\* poll's vote rows, and the vote_count values of its options sum to total_votes.
C9_TallyConsistent ==
  \A p \in Polls :
    /\ TotalVotes(p) = Cardinality({r \in votes : r.poll_id = p})
    /\ SumOfOptionCounts(p) = TotalVotes(p)

\* C10: the option of every vote row is an option of the row's poll.
C10_OptionBelongsToPoll ==
  \A r \in votes : OptionPoll[r.option_id] = r.poll_id


\* C11: a record_vote call that ends without success after its transaction
\* has retracted the voter's previous vote (the insert fails or the transaction
\* is aborted) leaves the committed vote rows as they were: the previous row
\* is still there, no new row exists, and the session holds nothing.  While
\* the call runs, its changes are not part of the committed rows.
C11_AbortRestoresLedger ==
  [][\A c \in Callers :
       /\ tx[c].del \subseteq votes /\ tx[c].ins \cap votes = {}
       /\ (tx[c].pc # "idle" /\ tx'[c].pc = "idle" /\ last'.result # OK) =>
            /\ votes' = votes
            /\ tx[c].del \subseteq votes'
            /\ tx[c].ins \cap votes' = {}
            /\ tx'[c] = IdleTx]_vars

\* a vote change of v1 on p1 from A1 to B1 was aborted after its INSERT (two
\* ids are drawn, one row is committed): the A1 row is the only row
C11_Witness ==
  /\ ~polls["p1"].allow_multiple_votes
  /\ last = [poll |-> "p1", option |-> "B1", voter |-> "v1", result |-> Aborted,
             raced |-> FALSE]
  /\ accepted = <<[poll |-> "p1", voter |-> "v1", option |-> "A1"]>>
  /\ nextId = 3
  /\ votes = {VoteRow(1, "p1", "A1", "v1")}
  /\ \A c \in Callers : tx[c] = IdleTx

\* C12: on a single-choice poll, from a voter's first accepted vote on, the
\* committed rows (what a concurrent reader sees) hold exactly one vote row of
\* that voter in every state, also while a vote change of the voter is between
\* its DELETE and its commit: never zero rows and never two.
C12_ReaderSeesOneVote ==
  \A p \in Polls, v \in Voters :
    (~polls[p].allow_multiple_votes /\ Requested(p, v) # <<>>) =>
      Cardinality(RowsOf(p, v)) = 1

\* a vote change has run its DELETE and its INSERT and has not committed
C12_Witness ==
  \E c \in Callers :
    /\ tx[c].pc = "commit" /\ ~tx[c].multi
    /\ tx[c].del # {} /\ tx[c].ins # {}
    /\ RowsOf(tx[c].poll, tx[c].voter) = tx[c].del

VotesOf(u, q) == {w \in appVotes : w.poll_id = q /\ w.user_id = u}

\* the errors of submitVote's checks of the caller, the poll and the option
ValidationErrors == {AuthErrorMsg, MustLogIn, InvalidOptionMsg, NoRowsMsg}

\* C13: a submitVote call rejected by validation (no identity, unknown poll,
\* invalid option) consists only of steps that leave the vote rows, the polls
\* and the invalidated paths unchanged: the steps up to the checks write
\* nothing, and a validation error is returned only from those steps.
C13_RejectionNoEffect ==
  [][/\ \A r \in Requests :
          (req[r].pc \in {"idle", "selectPoll"} /\ req'[r] # req[r]) =>
            UNCHANGED <<appVotes, appPolls, revalidated>>
     /\ req' = req => UNCHANGED <<appVotes, appPolls, revalidated>>
     /\ (appLast' # appLast /\ appLast'.error \in ValidationErrors) =>
          \/ req' = req
          \/ \E r \in Requests : req[r].pc = "selectPoll" /\ req'[r] = IdleReq]_vars

\* a call for a poll id with no row was rejected while votes and invalidated
\* paths exist
C13_Witness ==
  /\ appLast.action = "submitVote" /\ appLast.user # NULL
  /\ appLast.pollId \notin DOMAIN appPolls
  /\ appLast.error = NoRowsMsg
  /\ appVotes # {} /\ revalidated # {}

\* C14: submitVote reports the first violated precondition in the order
\* identity, poll exists, option valid: a call without identity gets an
\* authentication error, and a call of a signed-in user for a poll id with no
\* row gets the poll-not-found error, whatever its option argument.
C14_PreconditionOrder ==
  appLast.action = "submitVote" =>
    /\ appLast.user = NULL => appLast.error \in {AuthErrorMsg, MustLogIn}
    /\ (appLast.user # NULL /\ appLast.pollId \notin DOMAIN appPolls) =>
         appLast.error = NoRowsMsg

\* C15: no two vote rows have the same poll_id and user_id, in every state of
\* every interleaving of submitVote calls.
C15_OneVotePerUserPerPoll ==
  \A w1, w2 \in appVotes :
    (w1.poll_id = w2.poll_id /\ w1.user_id = w2.user_id) => w1 = w2

\* two calls of one user on one poll both passed the existence check; one
\* inserted its row, the other got the unique violation
C15_Witness ==
  \E r1, r2 \in Requests :
    /\ req[r1].user = req[r2].user /\ req[r1].pollId = req[r2].pollId
    /\ req[r1].pc = "respond" /\ req[r1].dbError = NULL
    /\ req[r2].pc = "respond" /\ req[r2].dbError = UniqueMsg
    /\ Cardinality(VotesOf(req[r1].user, req[r1].pollId)) = 1

\* C16: while a user has a vote row on a poll, no step of a submitVote call
\* of that user on that poll changes the user's rows, whatever option index
\* the call carries; the existence check answers "You have already voted in
\* this poll."; the insert is refused; a unique violation is answered with the
\* same message; and a refused insert is answered with an error.
C16_AlreadyVotedError ==
  [][\A r \in Requests :
       LET held == VotesOf(req[r].user, req[r].pollId)
       IN (held # {} /\ req'[r] # req[r]) =>
            /\ {w \in appVotes' : w.poll_id = req[r].pollId
                                    /\ w.user_id = req[r].user} = held
            /\ req[r].pc = "checkExisting" =>
                 appLast' = SubmitReply(r, AlreadyVoted) /\ req'[r] = IdleReq
            /\ req[r].pc = "insert" =>
                 /\ req'[r].dbError \in {UniqueMsg} \cup StorageMsgs
                 /\ appVotes' = appVotes
            /\ (req[r].pc = "respond" /\ req[r].dbError = UniqueMsg) =>
                 appLast'.error = AlreadyVoted
            /\ (req[r].pc = "respond" /\ req[r].dbError # NULL) =>
                 appLast'.error # NULL /\ appVotes' = appVotes]_vars

\* the existence check found the user's vote and the call was answered with
\* the message
C16_Witness ==
  /\ appLast.action = "submitVote"
  /\ appLast.error = AlreadyVoted /\ appLast.dbError = NULL
  /\ VotesOf(appLast.user, appLast.pollId) # {}
  /\ \A r \in Requests : req[r].pc = "idle"

\* C17: a call of submitVote, createPoll, updatePoll or deletePoll without an
\* authenticated user returns a non-null error and changes neither polls nor
\* votes, and no submitVote call goes on past its first step without a user.
C17_UnauthenticatedBlocked ==
  [][/\ \A r \in Requests : req[r].pc # "idle" => req[r].user # NULL
     /\ (req' = req /\ appLast'.action # "none" /\ appLast'.user = NULL) =>
          /\ appLast'.error # NULL
          /\ UNCHANGED <<appPolls, appVotes>>]_vars

\* an unauthenticated deletePoll of an existing poll that has a vote was
\* answered with the login error
C17_Witness ==
  /\ appLast.action = "deletePoll" /\ appLast.user = NULL
  /\ appLast.error = MustLogInDelete
  /\ appLast.pollId \in DOMAIN appPolls
  /\ \E w \in appVotes : w.poll_id = appLast.pollId

\* C18: every stored poll has a non-empty question and at least two options,
\* none of them empty, after any createPoll and updatePoll calls; a call
\* rejected for its question or its options leaves the polls unchanged.
C18_PollsWellFormed ==
  /\ [](\A q \in DOMAIN appPolls :
          /\ appPolls[q].question \notin {NULL, ""}
          /\ Len(appPolls[q].options) >= 2
          /\ \A i \in 1..Len(appPolls[q].options) : appPolls[q].options[i] # "")
  /\ [][(appLast' # appLast /\ appLast'.error = PleaseProvide) =>
          appPolls' = appPolls]_vars

\* a poll was created, the first poll was updated, and a call with too few
\* options or no question was rejected
C18_Witness ==
  /\ "q2" \in DOMAIN appPolls /\ "q1" \in DOMAIN appPolls
  /\ appPolls["q1"].question = "Q2"
  /\ appPolls["q1"].options = <<"b", "a", "a">>
  /\ appLast.error = PleaseProvide

\* C19: a step that changes or removes a stored poll is a call of the user
\* who owns it; a new poll is owned by the user who created it; and the
\* user_id of a stored poll never changes.
C19_OwnerOnlyMutation ==
  [][/\ \A q \in DOMAIN appPolls :
          /\ (q \notin DOMAIN appPolls' \/ appPolls'[q] # appPolls[q]) =>
               appLast'.user = appPolls[q].user_id
          /\ q \in DOMAIN appPolls' => appPolls'[q].user_id = appPolls[q].user_id
     /\ \A q \in DOMAIN appPolls' \ DOMAIN appPolls :
          appPolls'[q].user_id = appLast'.user /\ appLast'.user \in Users]_vars

\* an updatePoll call of u2 for the poll of u1 has run and the poll is as it
\* was created
C19_Witness ==
  /\ appLast.action = "updatePoll" /\ appLast.user = "u2"
  /\ appLast.pollId = "q1" /\ appLast.error = NULL
  /\ "q1" \in DOMAIN appPolls
  /\ appPolls["q1"] = [user_id |-> "u1", question |-> "Q1", options |-> <<"a", "b">>]

\* C20: the step in which a submitVote call returns success comes after the
\* step that inserted its row, and it passes the poll's path to
\* revalidatePath; a call whose insert added a row returns in such a step; a
\* step in which a call returns an error invalidates nothing.
C20_RevalidateOnInsert ==
  [][/\ \A r \in Requests :
          /\ (req[r].pc = "insert" /\ req'[r] # req[r] /\ appVotes' # appVotes) =>
               req'[r].pc = "respond" /\ req'[r].dbError = NULL
          /\ (req[r].pc = "respond" /\ req'[r] # req[r] /\ req[r].dbError = NULL) =>
               /\ appLast' = SubmitReply(r, NULL)
               /\ <<"/polls", req[r].pollId>> \in revalidated'
               /\ VotesOf(req[r].user, req[r].pollId) # {}
     /\ (appLast' # appLast /\ appLast'.error # NULL) => revalidated' = revalidated
     /\ (appLast' # appLast /\ appLast'.error = NULL) =>
          \E r \in Requests : req[r].pc = "respond" /\ req[r].dbError = NULL
                                 /\ req'[r] = IdleReq]_vars

\* a call that inserted a vote has returned success and its poll's path is
\* invalidated; the path of the poll id with no row is not
C20_Witness ==
  /\ appLast.action = "submitVote" /\ appLast.error = NULL
  /\ VotesOf(appLast.user, appLast.pollId) # {}
  /\ revalidated = {<<"/polls", appLast.pollId>>}

\* C21: every server action that changes polls or votes and returns
\* { error: null } has passed a path to revalidatePath by then: a step that
\* changes the polls leaves a path invalidated, and the step in which
\* submitVote returns success invalidates the poll's path.
C21_MutationRevalidates ==
  [][/\ appPolls' # appPolls => revalidated' # {}
     /\ \A r \in Requests :
          (req[r].pc = "respond" /\ req'[r] # req[r] /\ req[r].dbError = NULL) =>
            <<"/polls", req[r].pollId>> \in revalidated']_vars

\* C22: a record_vote call of voter v on poll p leaves every vote row of
\* another voter or another poll as it was, and on a multiple-choice poll
\* also every row of v on p for an option other than the requested one.
C22_OtherRowsUntouched ==
  [][LET kept(rows) ==
           {r \in rows : \/ r.voter_id # last'.voter
                         \/ r.poll_id # last'.poll
                         \/ /\ last'.poll \in Polls
                            /\ polls[last'.poll].allow_multiple_votes
                            /\ r.option_id # last'.option}
     IN kept(votes') = kept(votes)]_vars

\* v1 changed its vote on the single-choice poll p1 after v2 had voted there,
\* and the row of v2 is the one inserted first
C22_Witness ==
  /\ ~polls["p1"].allow_multiple_votes
  /\ accepted = <<[poll |-> "p1", voter |-> "v2", option |-> "A1"],
                  [poll |-> "p1", voter |-> "v1", option |-> "A1"],
                  [poll |-> "p1", voter |-> "v1", option |-> "B1"]>>
  /\ VoteRow(1, "p1", "A1", "v2") \in votes
  /\ Cardinality(votes) = 2

\* C23: a vote row is added only by a call of the session of the row's own
\* voter, and removed only by such a call: every row that a committing
\* record_vote call adds or removes has the voter_id of the calling session's
\* user (auth.uid()).
C23_VotesByOwnVoter ==
  [][\A c \in Callers :
       (tx[c].pc = "commit" /\ tx'[c].pc = "idle") =>
         \A r \in (votes' \ votes) \cup (votes \ votes') :
           r.voter_id = SessionVoter[c]]_vars

\* C24: every stored vote has an option_index that is an index into the
\* options of its poll as they are now: 0 <= option_index < options.length.
C24_OptionIndexValid ==
  \A w \in appVotes :
    /\ w.poll_id \in DOMAIN appPolls
    /\ 0 <= w.option_index
    /\ w.option_index < Len(appPolls[w.poll_id].options)

\* C25: deletePoll and updatePoll return { error: null } only for a poll
\* that exists and is owned by the caller, the poll the call deleted or
\* updated.
C25_SuccessMeansChanged ==
  [][(appLast' # appLast /\ appLast'.action \in {"deletePoll", "updatePoll"}
        /\ appLast'.error = NULL) =>
       /\ appLast'.pollId \in DOMAIN appPolls
       /\ appPolls[appLast'.pollId].user_id = appLast'.user]_vars


(***************************************************************************)
(* Properties of Part III                                                  *)
(***************************************************************************)
\* C26: once the auth-change callback has put a signed-in session into the
\* state of AuthProvider, a step that is no auth event (the initial fetch
\* resuming) leaves session and user as they are; and after the unmount no
\* step changes user, session or loading.
C26_LatestAuthEventWins ==
  [][/\ (session # NULL /\ session = authSession /\ authSession' = authSession) =>
          session' = session /\ user' = user
     /\ ~mounted => UNCHANGED <<user, session, loading>>]_vars

\* C27: when updateSession has returned, every cookie the auth client set or
\* removed is in the request cookies and in the cookies of the returned
\* response with the value written last.
C27_CookiesReachResponse ==
  returned =>
    \A n \in DOMAIN written :
      /\ n \in DOMAIN requestCookies /\ requestCookies[n] = written[n]
      /\ n \in DOMAIN responseCookies /\ responseCookies[n] = written[n]

====
